---- MODULE Spec2Model ----
(***************************************************************************)
(* A model of demo_graph.py: the Streamlit script that loads a table of    *)
(* districts, derives labels for its P12_ columns, builds a colour scale   *)
(* for one preset column and assembles a Folium map with one GeoJson layer *)
(* per district that has a geometry.                                       *)
(*                                                                         *)
(* Strings the code only passes around are TLA+ strings. Column names,     *)
(* which the code splits and strips, are sequences of one-character        *)
(* strings. A number of a metric column is a record [na, x]: na says the   *)
(* cell is NaN (pandas' missing value), x is the number otherwise.         *)
(* Python's None for a geometry or an image is the string "None".          *)
(***************************************************************************)
EXTENDS Integers, Sequences, FiniteSets, TLC

VARIABLES
    gdf,              \* the table load_data returned: [columns, rows]
    variable,         \* PRESET_VARIABLE, the column main colours by
    variable_labels,  \* main's dict of column name -> label
    pc,               \* where the script run is
    st_error,         \* what st.error showed in this run
    folium_map,       \* main's folium_map, the map generate_map returned
    displayed,        \* the map folium_static put on the page in this run
    previous          \* the map the run before this one put on the page

vars == <<gdf, variable, variable_labels, pc, st_error, folium_map, displayed, previous>>

---------------------------------------------------------------------------
(* Bounds of the enumerated inputs.                                        *)

MaxRegions == 3
MaxTail == 4

---------------------------------------------------------------------------
(* Column names.                                                           *)

COL_NAME == <<"N", "A", "M", "E">>
COL_geometry == <<"g", "e", "o", "m", "e", "t", "r", "y">>
COL_Female_BarChart == <<"F", "e", "m", "a", "l", "e", "_", "B", "a", "r", "C", "h", "a", "r", "t">>
COL_Male_BarChart == <<"M", "a", "l", "e", "_", "B", "a", "r", "C", "h", "a", "r", "t">>
PRESET_VARIABLE == <<"P", "1", "2", "_", "0", "2", "7", "N">>
P12_ == <<"P", "1", "2", "_">>

FixedColumns == {COL_NAME, COL_geometry, COL_Female_BarChart, COL_Male_BarChart}

---------------------------------------------------------------------------
(* Numbers with NaN, compared and subtracted as Python floats are: every   *)
(* comparison with NaN is false, arithmetic on NaN gives NaN.              *)

NaN == [na |-> TRUE, x |-> 0]
Num(n) == [na |-> FALSE, x |-> n]

isna(v) == v.na
PyEq(a, b) == ~a.na /\ ~b.na /\ a.x = b.x
PyLt(a, b) == ~a.na /\ ~b.na /\ a.x < b.x
PyLe(a, b) == ~a.na /\ ~b.na /\ a.x <= b.x
PyAdd(a, n) == IF a.na THEN NaN ELSE Num(a.x + n)

---------------------------------------------------------------------------
(* The str methods extract_variable_labels uses.                           *)

Whitespace == {" ", "\t", "\n", "\r"}

\* col.startswith(prefix)
startswith(s, prefix) ==
    /\ Len(s) >= Len(prefix)
    /\ SubSeq(s, 1, Len(prefix)) = prefix

\* the position of the first sep in s, 0 when there is none
find(s, sep) ==
    IF \E i \in 1..Len(s) : s[i] = sep
    THEN CHOOSE i \in 1..Len(s) : s[i] = sep /\ \A j \in 1..(i - 1) : s[j] # sep
    ELSE 0

\* s.split(sep, maxsplit): cuts at the first maxsplit separators, from the left
RECURSIVE split(_, _, _)
split(s, sep, maxsplit) ==
    IF maxsplit = 0 \/ find(s, sep) = 0
    THEN <<s>>
    ELSE <<SubSeq(s, 1, find(s, sep) - 1)>>
             \o split(SubSeq(s, find(s, sep) + 1, Len(s)), sep, maxsplit - 1)

RECURSIVE lstrip(_)
lstrip(s) == IF s # <<>> /\ Head(s) \in Whitespace THEN lstrip(Tail(s)) ELSE s

RECURSIVE rstrip(_)
rstrip(s) ==
    IF s # <<>> /\ s[Len(s)] \in Whitespace THEN rstrip(SubSeq(s, 1, Len(s) - 1)) ELSE s

\* s.strip()
strip(s) == rstrip(lstrip(s))

\* label_of with the label taken after the last underscore
label_of_last_underscore(col) ==
    LET last == {i \in 1..Len(col) : col[i] = "_" /\ \A j \in (i + 1)..Len(col) : col[j] # "_"}
        parts == split(col, "_", 2)
    IN  IF Len(parts) = 3
        THEN strip(SubSeq(col, (CHOOSE i \in last : TRUE) + 1, Len(col)))
        ELSE col

\* the label extract_variable_labels gives one P12_ column
label_of(col) ==
    LET parts == split(col, "_", 2)
    IN  IF Len(parts) = 3 THEN strip(parts[3]) ELSE col

extract_variable_labels(g) ==
    [col \in {c \in g.columns : startswith(c, P12_)} |-> label_of(col)]

\* d.get(key, default)
get(d, key, default) == IF key \in DOMAIN d THEN d[key] ELSE default

---------------------------------------------------------------------------
(* pandas' Series.min and Series.max: NaN cells are skipped, and the       *)
(* result is NaN when no cell is left.                                     *)

RECURSIVE nanmin(_)
nanmin(values) ==
    IF values = <<>> THEN NaN
    ELSE LET rest == nanmin(Tail(values))
             v == Head(values)
         IN  IF isna(v) THEN rest
             ELSE IF isna(rest) \/ v.x < rest.x THEN v ELSE rest

RECURSIVE nanmax(_)
nanmax(values) ==
    IF values = <<>> THEN NaN
    ELSE LET rest == nanmax(Tail(values))
             v == Head(values)
         IN  IF isna(v) THEN rest
             ELSE IF isna(rest) \/ v.x > rest.x THEN v ELSE rest

\* column with the missing cells read as 0
column_fillna(g, col) ==
    [i \in 1..Len(g.rows) |-> IF isna(g.rows[i][col]) THEN Num(0) ELSE g.rows[i][col]]

\* gdf[variable]: the cells of one column, in row order
column(g, col) == [i \in 1..Len(g.rows) |-> g.rows[i][col]]

---------------------------------------------------------------------------
(* branca's cm.linear.OrRd_09 and LinearColormap, as far as the script     *)
(* uses them. A colour of the ramp is its three bytes; OrRd_09.scale       *)
(* spreads the nine colours evenly over [vmin, vmax].                      *)

OrRd_09 == <<
    <<255, 247, 236>>, <<254, 232, 200>>, <<253, 212, 158>>,
    <<253, 187, 132>>, <<252, 141, 89>>, <<239, 101, 72>>,
    <<215, 48, 31>>, <<179, 0, 0>>, <<127, 0, 0>> >>

\* int(u * 255.9999) of a channel u = num / (255 * den), den > 0. With
\* num = a * den + r this is a + 1 when r / den + (num / den) * 9999 / 2550000
\* reaches 1, and a otherwise; the test is written without the division.
to_byte(num, den) ==
    LET a == num \div den
        r == num % den
    IN  IF 3333 * num >= 850000 * (den - r) THEN a + 1 ELSE a

\* colormap(x): the '#rrggbbaa' string of LinearColormap.__call__, as its four
\* bytes. Thresholds are index[k] = vmin + (vmax - vmin) * k / 8, k = 0..8;
\* they are compared after multiplying by 8.
Call(colormap, x) ==
    LET lo == colormap.vmin
        hi == colormap.vmax
    IN  IF PyLe(x, lo) THEN [hex |-> OrRd_09[1] \o <<255>>]
        ELSE IF PyLe(hi, x) THEN [hex |-> OrRd_09[9] \o <<255>>]
        ELSE IF ~PyLt(lo, hi) \/ isna(x)
             THEN [raised |-> "ValueError: Thresholds are not sorted."]
        ELSE LET D == hi.x - lo.x
                 X == 8 * (x.x - lo.x)
                 i == Cardinality({k \in 0..8 : D * k < X})
                 P == X - D * (i - 1)
                 c0 == OrRd_09[i]
                 c1 == OrRd_09[i + 1]
             IN  [hex |-> [j \in 1..3 |-> to_byte((D - P) * c0[j] + P * c1[j], D)]
                              \o <<255>>]

\* create_colormap with the two ends of the scale exchanged
create_colormap_swapped(g, var, labels) ==
    LET min_val == nanmin(column(g, var))
        max_val == nanmax(column(g, var))
        degenerate == PyEq(min_val, max_val)
    IN  [vmin |-> IF degenerate THEN PyAdd(max_val, 1) ELSE max_val,
         vmax |-> IF degenerate THEN PyAdd(min_val, -1) ELSE min_val,
         caption |-> <<"Demographic Metric: ">> \o get(labels, var, var)]

\* create_colormap(gdf, variable, variable_labels)
create_colormap(g, var, labels) ==
    LET min_val == nanmin(column(g, var))
        max_val == nanmax(column(g, var))
        degenerate == PyEq(min_val, max_val)
    IN  [vmin |-> IF degenerate THEN PyAdd(min_val, -1) ELSE min_val,
         vmax |-> IF degenerate THEN PyAdd(max_val, 1) ELSE max_val,
         caption |-> <<"Demographic Metric: ">> \o get(labels, var, var)]

---------------------------------------------------------------------------
(* generate_map and the functions nested in it.                            *)

NoMap == [built |-> FALSE]

\* Map as one object kept from run to run, with the children it has
Map_shared == IF previous.built THEN [built |-> TRUE, children |-> previous.children]
              ELSE [built |-> TRUE, children |-> <<>>]

\* folium.Map(location=[37.8, -96], zoom_start=4): a map with no children
Map == [built |-> TRUE, children |-> <<>>]

\* create_html_content with the panel degraded only when both images are None
create_html_content_and(row) ==
    IF row[COL_Female_BarChart] = "None" /\ row[COL_Male_BarChart] = "None"
    THEN << <<"h4", row[COL_NAME]>>, <<"p", "No data available for bar charts.">> >>
    ELSE << <<"h4", row[COL_NAME]>>,
            <<"h5", "Female Age Data">>, <<"img", row[COL_Female_BarChart]>>,
            <<"h5", "Male Age Data">>, <<"img", row[COL_Male_BarChart]>> >>

\* create_html_content(row), as the list of the elements of the <div>
create_html_content(row) ==
    LET female_img == row[COL_Female_BarChart]
        male_img == row[COL_Male_BarChart]
        district_name == row[COL_NAME]
    IN  IF female_img = "None" \/ male_img = "None"
        THEN << <<"h4", district_name>>,
                <<"p", "No data available for bar charts.">> >>
        ELSE << <<"h4", district_name>>,
                <<"h5", "Female Age Data">>, <<"img", female_img>>,
                <<"h5", "Male Age Data">>, <<"img", male_img>> >>

\* style_function without the test for a missing number
style_function_unchecked(feature, var, colormap) ==
    [fillColor |-> Call(colormap, get(feature.properties, var, NaN)),
     color |-> "black",
     weight |-> "0.5",
     fillOpacity |-> "0.7"]

\* style_function(feature), closed over variable and colormap
style_function(feature, var, colormap) ==
    LET val == get(feature.properties, var, NaN)
    IN  [fillColor |-> IF isna(val) THEN [css |-> "grey"] ELSE Call(colormap, val),
         color |-> "black",
         weight |-> "0.5",
         fillOpacity |-> "0.7"]

\* drop that drops the geometry alone
drop_geometry_only(row, labels) == [c \in (DOMAIN row) \ {COL_geometry} |-> row[c]]

\* row.drop(labels): a new row without the dropped columns
drop(row, labels) == [c \in (DOMAIN row) \ labels |-> row[c]]

\* the body of the loop for one row that has a geometry: the GeoJson layer
GeoJson(row, var, colormap) ==
    LET properties == drop(row, {COL_geometry, COL_Female_BarChart, COL_Male_BarChart})
        feature == [properties |-> properties, geometry |-> row[COL_geometry]]
    IN  [feature |-> feature,
         style |-> style_function(feature, var, colormap),
         tooltip |-> row[COL_NAME],
         popup |-> create_html_content(row)]

\* skip_row that also skips a row without a female image
skip_row_or_no_image(row) ==
    row[COL_geometry] = "None" \/ row[COL_Female_BarChart] = "None"

\* `if row['geometry'] is None: continue`
skip_row(row) == row[COL_geometry] = "None"

\* the loop over gdf.iterrows(): rows from i on, added to the children so far
RECURSIVE add_rows(_, _, _, _, _)
add_rows(children, rows, i, var, colormap) ==
    IF i > Len(rows) THEN children
    ELSE IF skip_row(rows[i]) THEN add_rows(children, rows, i + 1, var, colormap)
    ELSE add_rows(Append(children, GeoJson(rows[i], var, colormap)),
                  rows, i + 1, var, colormap)

\* generate_map(gdf, variable, variable_labels), for a variable that is a column
generate_map(g, var, labels) ==
    LET m == Map
        colormap == create_colormap(g, var, labels)
    IN  [built |-> TRUE,
         colormap |-> colormap,
         children |-> add_rows(m.children, g.rows, 1, var, colormap),
         layer_control |-> TRUE]

---------------------------------------------------------------------------
(* The tables load_data can return. A row is a function from the table's   *)
(* columns to cells. Three families of tables are enumerated:              *)
(*   - every combination of a missing geometry, a missing number and       *)
(*     missing images, with and without the preset column;                 *)
(*   - every choice of numbers (close, far apart, equal, missing) for      *)
(*     rows with and without a geometry;                                   *)
(*   - one row, and one more column under every name of NamedColumns,      *)
(*     coloured by the preset column or by that column.                    *)

Geometries == {"None", "Polygon"}
FemaleImages == {"None", "iVBORw0KGgoF"}
MaleImages == {"None", "iVBORw0KGgoM"}
Values == {NaN, Num(10), Num(11), Num(20), Num(30), Num(1000)}

DistrictName(i) == <<"A", "B", "C", "D", "E", "F">>[i]

row_of(i, cell, metrics) ==
    [c \in FixedColumns \cup DOMAIN metrics |->
        IF c = COL_NAME THEN DistrictName(i)
        ELSE IF c = COL_geometry THEN cell.geometry
        ELSE IF c = COL_Female_BarChart THEN cell.female
        ELSE IF c = COL_Male_BarChart THEN cell.male
        ELSE metrics[c]]

\* the tables of up to MaxRegions rows with the cells of Cells; the preset
\* column, when the table has it, holds cell.value
table_of(cells, preset) ==
    [columns |-> FixedColumns \cup (IF preset THEN {PRESET_VARIABLE} ELSE {}),
     rows |-> [i \in DOMAIN cells |->
                 row_of(i, cells[i],
                        IF preset THEN [c \in {PRESET_VARIABLE} |-> cells[i].value]
                        ELSE <<>>)]]

MissingCells ==
    [geometry : Geometries, female : FemaleImages, male : MaleImages,
     value : {NaN, Num(10)}]

ValueCells ==
    [geometry : Geometries, female : FemaleImages \ {"None"},
     male : MaleImages \ {"None"}, value : Values]

\* the names of the extra column: a head, then up to MaxTail characters
TailChars == {"_", " ", "N"}
Heads == {P12_, <<"P", "1", "2">>, <<"N">>}

\* a table of one row with the metric columns cols
named_table(cols) ==
    [columns |-> FixedColumns \cup cols,
     rows |-> <<row_of(1, [geometry |-> "Polygon", female |-> "iVBORw0KGgoF",
                           male |-> "iVBORw0KGgoM"],
                       [c \in cols |-> Num(10)])>>]

InitTable ==
    \/ \E n \in 0..MaxRegions : \E cells \in [1..n -> MissingCells] :
          \E preset \in BOOLEAN :
             /\ gdf = table_of(cells, preset)
             /\ variable = PRESET_VARIABLE
    \/ \E n \in 0..MaxRegions : \E cells \in [1..n -> ValueCells] :
          /\ gdf = table_of(cells, TRUE)
          /\ variable = PRESET_VARIABLE
    \/ \E n \in 0..MaxTail : \E tail \in [1..n -> TailChars] : \E head \in Heads :
          \E more \in {{}, {PRESET_VARIABLE}} :
             /\ gdf = named_table({head \o tail} \cup more)
             /\ variable \in {PRESET_VARIABLE, head \o tail}

Init ==
    /\ InitTable
    /\ variable_labels = <<>>
    /\ pc = "extract"
    /\ st_error = ""
    /\ folium_map = NoMap
    /\ displayed = NoMap
    /\ previous = NoMap

---------------------------------------------------------------------------
(* One run of the script is main, step by step; Streamlit runs the script  *)
(* again from the top whenever the page is loaded or refreshed.            *)

\* variable_labels = extract_variable_labels(gdf)
ExtractVariableLabels ==
    /\ pc = "extract"
    /\ variable_labels' = extract_variable_labels(gdf)
    /\ pc' = "check"
    /\ UNCHANGED <<gdf, variable, st_error, folium_map, displayed, previous>>

\* preset_missing that tests the prefix of the name, not the columns
preset_missing_prefix(g, var) == ~startswith(var, P12_)

\* `PRESET_VARIABLE not in gdf.columns`
preset_missing(g, var) == var \notin g.columns

\* the check of the preset variable: st.error and st.stop, or on to the map
CheckPresetVariable ==
    /\ pc = "check"
    /\ IF preset_missing(gdf, variable)
       THEN /\ st_error' = "Preset variable not found in the data."
            /\ pc' = "stopped"
       ELSE /\ st_error' = st_error
            /\ pc' = "generate"
    /\ UNCHANGED <<gdf, variable, variable_labels, folium_map, displayed, previous>>

\* folium_map = generate_map(gdf, PRESET_VARIABLE, variable_labels); for a
\* variable that is no column, gdf[variable] raises KeyError before the scale
GenerateMap ==
    /\ pc = "generate"
    /\ IF variable \in gdf.columns
       THEN /\ folium_map' = generate_map(gdf, variable, variable_labels)
            /\ pc' = "display"
            /\ st_error' = st_error
       ELSE /\ folium_map' = folium_map
            /\ pc' = "raised"
            /\ st_error' = "KeyError"
    /\ UNCHANGED <<gdf, variable, variable_labels, displayed, previous>>

\* folium_static(folium_map, width=1200, height=800)
FoliumStatic ==
    /\ pc = "display"
    /\ displayed' = folium_map
    /\ pc' = "done"
    /\ UNCHANGED <<gdf, variable, variable_labels, st_error, folium_map, previous>>

\* the next run of the script: load_data returns the cached table, every
\* local of main starts anew, the page shows what this run puts on it
Rerun ==
    /\ pc \in {"done", "stopped", "raised"}
    /\ previous' = displayed
    /\ variable_labels' = <<>>
    /\ st_error' = ""
    /\ folium_map' = NoMap
    /\ displayed' = NoMap
    /\ pc' = "extract"
    /\ UNCHANGED <<gdf, variable>>

Next ==
    \/ ExtractVariableLabels
    \/ CheckPresetVariable
    \/ GenerateMap
    \/ FoliumStatic
    \/ Rerun

Spec == Init /\ [][Next]_vars

---------------------------------------------------------------------------
(* What the properties below speak of.                                     *)

HasGeometry(row) == row[COL_geometry] # "None"

\* the rows of the table that have a geometry, in table order
RowsWithGeometry == SelectSeq(gdf.rows, HasGeometry)

\* the numbers of the coloured column that are not missing
PresentValues == {gdf.rows[i][variable].x : i \in {j \in DOMAIN gdf.rows : ~isna(gdf.rows[j][variable])}}

SetMin(S) == CHOOSE x \in S : \A y \in S : x <= y
SetMax(S) == CHOOSE x \in S : \A y \in S : x >= y

MissingStyle ==
    [fillColor |-> [css |-> "grey"], color |-> "black", weight |-> "0.5", fillOpacity |-> "0.7"]

RampLowest == <<255, 247, 236, 255>>
RampMidpoint == <<252, 141, 89, 255>>
RampHighest == <<127, 0, 0, 255>>

\* colour a is at or before colour b in the ramp: the ramp runs from light to
\* dark, no channel ever rising
RampLe(a, b) == \A j \in 1..3 : a[j] >= b[j]

---------------------------------------------------------------------------
\* C1: generate_map never raises for a table that has the coloured column,
\* whatever geometries, numbers and images are missing, and the layers of the
\* map are exactly the rows with a geometry, in table order: as many layers as
\* such rows, none for a row without geometry.
C1_FeaturesAreRowsWithGeometry ==
    /\ pc # "raised"
    /\ folium_map.built =>
          /\ Len(folium_map.children) = Len(RowsWithGeometry)
          /\ Len(folium_map.children)
                = Cardinality({i \in DOMAIN gdf.rows : gdf.rows[i][COL_geometry] # "None"})
          /\ \A k \in 1..Len(folium_map.children) :
                /\ folium_map.children[k].tooltip = RowsWithGeometry[k][COL_NAME]
                /\ folium_map.children[k].feature.geometry = RowsWithGeometry[k][COL_geometry]
                /\ folium_map.children[k].feature.geometry # "None"

C1_Witness ==
    /\ folium_map.built
    /\ Len(gdf.rows) = 3
    /\ gdf.rows[1][COL_geometry] = "None"
    /\ isna(gdf.rows[2][variable])
    /\ gdf.rows[3][COL_Female_BarChart] = "None"
    /\ Len(folium_map.children) = 2
    /\ folium_map.children[1].tooltip = "B"
    /\ folium_map.children[2].tooltip = "C"

\* C2: every colour scale has vmin < vmax strictly, for every column of
\* numbers, missing cells included; a column whose numbers are all v gives
\* (v - 1, v + 1). Stated for the tables that have at least one row, so that
\* the column holds at least one cell.
C2_DomainStrict ==
    (folium_map.built /\ Len(gdf.rows) > 0) =>
        /\ PyLt(folium_map.colormap.vmin, folium_map.colormap.vmax)
        /\ \A v \in PresentValues :
              PresentValues = {v} =>
                  /\ folium_map.colormap.vmin = Num(v - 1)
                  /\ folium_map.colormap.vmax = Num(v + 1)

\* C3: the domain of the scale comes from the numbers that are not missing: with
\* two distinct numbers present it is (min, max) of the present numbers, and it
\* is the domain of the same table without the rows whose number is missing.
C3_DomainIgnoresMissing ==
    (folium_map.built /\ Cardinality(PresentValues) >= 2) =>
        LET without == [gdf EXCEPT !.rows = SelectSeq(gdf.rows, LAMBDA r : ~isna(r[variable]))]
            scale == create_colormap(without, variable, variable_labels)
        IN  /\ folium_map.colormap.vmin = Num(SetMin(PresentValues))
            /\ folium_map.colormap.vmax = Num(SetMax(PresentValues))
            /\ folium_map.colormap.vmin = scale.vmin
            /\ folium_map.colormap.vmax = scale.vmax

C3_Witness ==
    /\ folium_map.built
    /\ Len(gdf.rows) = 3
    /\ gdf.rows[1][variable] = Num(10)
    /\ gdf.rows[2][variable] = NaN
    /\ gdf.rows[3][variable] = Num(30)
    /\ folium_map.colormap.vmin = Num(10)
    /\ folium_map.colormap.vmax = Num(30)

\* C4: a layer whose number is missing has the fixed grey style, whatever the
\* domain of the scale; a layer whose number is present is filled with the
\* scale's colour for that number, with the same border, weight and opacity.
C4_StyleOfLayer ==
    folium_map.built =>
        \A k \in 1..Len(folium_map.children) :
            LET val == RowsWithGeometry[k][variable]
                style == folium_map.children[k].style
            IN  IF isna(val)
                THEN style = MissingStyle
                ELSE /\ style = [MissingStyle EXCEPT
                                    !.fillColor = Call(folium_map.colormap, val)]
                     /\ DOMAIN style.fillColor = {"hex"}

C4_Witness ==
    /\ folium_map.built
    /\ Len(folium_map.children) = 2
    /\ isna(RowsWithGeometry[1][variable])
    /\ folium_map.children[1].style = MissingStyle
    /\ ~isna(RowsWithGeometry[2][variable])
    /\ folium_map.children[2].style.fillColor = [hex |-> RampHighest]

\* C5: the popup of a layer is the "No data available" panel (name and message,
\* no image) exactly when the female or the male image is None; with both
\* images it holds the name and the two labelled images.
C5_PanelOfLayer ==
    folium_map.built =>
        \A k \in 1..Len(folium_map.children) :
            LET row == RowsWithGeometry[k]
                popup == folium_map.children[k].popup
                nodata == << <<"h4", row[COL_NAME]>>,
                             <<"p", "No data available for bar charts.">> >>
            IN  /\ (popup = nodata) <=>
                      ("None" \in {row[COL_Female_BarChart], row[COL_Male_BarChart]})
                /\ popup # nodata =>
                      popup = << <<"h4", row[COL_NAME]>>,
                                 <<"h5", "Female Age Data">>,
                                 <<"img", row[COL_Female_BarChart]>>,
                                 <<"h5", "Male Age Data">>,
                                 <<"img", row[COL_Male_BarChart]>> >>

C5_Witness ==
    /\ folium_map.built
    /\ Len(folium_map.children) = 3
    /\ RowsWithGeometry[1][COL_Female_BarChart] = "None"
    /\ RowsWithGeometry[1][COL_Male_BarChart] # "None"
    /\ RowsWithGeometry[2][COL_Female_BarChart] # "None"
    /\ RowsWithGeometry[2][COL_Male_BarChart] = "None"
    /\ Len(folium_map.children[1].popup) = 2
    /\ Len(folium_map.children[2].popup) = 2
    /\ Len(folium_map.children[3].popup) = 5

\* C6: when the preset variable is no column of the table, the run stops with
\* the "not found" error before any scale is built: no map is generated and
\* none is displayed.
C6_UnknownVariableStops ==
    variable \notin gdf.columns =>
        /\ pc \in {"extract", "check", "stopped"}
        /\ pc = "stopped" => st_error = "Preset variable not found in the data."
        /\ folium_map = NoMap
        /\ displayed = NoMap
        /\ previous = NoMap

C6_Witness ==
    /\ pc = "stopped"
    /\ variable \notin gdf.columns
    /\ Len(gdf.rows) > 0
    /\ st_error = "Preset variable not found in the data."

FillOf(k) == folium_map.children[k].style.fillColor.hex

\* C8 as claimed: with min < max among the present numbers, the layer of the
\* minimum is filled with the lowest colour of the ramp, the layer of the
\* maximum with the highest, and a layer whose number is strictly between with
\* a colour strictly between the two in ramp order.
C8_StrictlyBetween ==
    (folium_map.built /\ Cardinality(PresentValues) >= 2) =>
        LET lo == SetMin(PresentValues)
            hi == SetMax(PresentValues)
        IN  \A k \in 1..Len(folium_map.children) :
                LET val == RowsWithGeometry[k][variable]
                IN  ~isna(val) =>
                       /\ val.x = lo => FillOf(k) = RampLowest
                       /\ val.x = hi => FillOf(k) = RampHighest
                       /\ (lo < val.x /\ val.x < hi) =>
                             /\ RampLe(RampLowest, FillOf(k))
                             /\ RampLe(FillOf(k), RampHighest)
                             /\ FillOf(k) # RampLowest
                             /\ FillOf(k) # RampHighest

\* C8 as amended: the layer of the minimum has the lowest colour, the layer of
\* the maximum the highest; a layer whose number is strictly between has the
\* colour at the position of linear interpolation, rounded down to bytes: it is
\* between the two ramp colours of its eighth of [min, max], it is the ramp
\* colour itself at a boundary of an eighth (the midpoint of [min, max] has
\* the fifth of the nine colours), and a larger number never has an earlier
\* colour. It can be the colour of an end.
C8_BetweenInRampOrder ==
    (folium_map.built /\ Cardinality(PresentValues) >= 2) =>
        LET lo == SetMin(PresentValues)
            hi == SetMax(PresentValues)
            shown == {k \in 1..Len(folium_map.children) :
                         ~isna(RowsWithGeometry[k][variable])}
            x(k) == RowsWithGeometry[k][variable].x
        IN  /\ \A k \in shown :
                  /\ x(k) = lo => FillOf(k) = RampLowest
                  /\ x(k) = hi => FillOf(k) = RampHighest
                  /\ RampLe(RampLowest, FillOf(k))
                  /\ RampLe(FillOf(k), RampHighest)
                  /\ FillOf(k)[4] = 255
                  /\ \A i \in 1..8 :
                        ((i - 1) * (hi - lo) <= 8 * (x(k) - lo)
                              /\ 8 * (x(k) - lo) <= i * (hi - lo)) =>
                           /\ RampLe(OrRd_09[i] \o <<255>>, FillOf(k))
                           /\ RampLe(FillOf(k), OrRd_09[i + 1] \o <<255>>)
                  /\ 2 * x(k) = lo + hi => FillOf(k) = RampMidpoint
            /\ \A j, k \in shown : x(j) <= x(k) => RampLe(FillOf(j), FillOf(k))

C8_Witness ==
    /\ folium_map.built
    /\ Len(folium_map.children) = 3
    /\ RowsWithGeometry[1][variable] = Num(10)
    /\ RowsWithGeometry[2][variable] = Num(20)
    /\ RowsWithGeometry[3][variable] = Num(30)
    /\ FillOf(1) = RampLowest
    /\ FillOf(2) = RampMidpoint
    /\ FillOf(3) = RampHighest

\* C9: generate_map leaves the table and the labels as they were, and no step
\* of a run changes the table; the properties of a layer are a new mapping of
\* every column of its row but geometry and the two images.
C9_InputUnchanged ==
    [][/\ gdf' = gdf
       /\ pc = "generate" =>
             /\ variable_labels' = variable_labels
             /\ variable' = variable
             /\ folium_map'.built =>
                   \A k \in 1..Len(folium_map'.children) :
                       LET properties == folium_map'.children[k].feature.properties
                           row == RowsWithGeometry[k]
                       IN  /\ DOMAIN properties = gdf.columns
                                \ {COL_geometry, COL_Female_BarChart, COL_Male_BarChart}
                           /\ \A c \in DOMAIN properties : properties[c] = row[c]]_vars

C9_Witness ==
    /\ pc = "display"
    /\ Len(folium_map.children) = 1
    /\ Cardinality(gdf.columns) = 6
    /\ DOMAIN folium_map.children[1].feature.properties = gdf.columns
            \ {COL_geometry, COL_Female_BarChart, COL_Male_BarChart}
    /\ folium_map.children[1].feature.properties[COL_NAME] = "A"
    /\ folium_map.children[1].feature.properties[variable] = Num(10)

\* everything after the second underscore of col, without the whitespace
\* around it; col itself when it has fewer than two underscores
ThirdSegment(col) ==
    LET underscores == {i \in 1..Len(col) : col[i] = "_"}
    IN  IF Cardinality(underscores) < 2 THEN col
        ELSE LET second == CHOOSE i \in underscores :
                               Cardinality({j \in underscores : j < i}) = 1
                 inked == {i \in (second + 1)..Len(col) : col[i] \notin Whitespace}
             IN  IF inked = {} THEN <<>>
                 ELSE SubSeq(col, SetMin(inked), SetMax(inked))

====
